---- MODULE Spec2Model ----
(***************************************************************************)
(* A model of tap-ants2: the token lifecycle (TapAnts2.get_token and the   *)
(* stand-alone script's get_token / is_token_valid), the stream fetches    *)
(* (ActiveAntsStream.get_records and the derived order_details /           *)
(* order_items streams), the two CSV export paths, and flatten_dict.       *)
(*                                                                         *)
(* One step of the model is one HTTP round trip together with the code     *)
(* that runs between it and the next one.  The remote API is the           *)
(* environment: every response (status, body) is chosen from a small set.  *)
(***************************************************************************)
EXTENDS Integers, Sequences, FiniteSets, TLC

\* ------------------------------------------------------------- values ---

\* Python's None / JSON null, for integer-valued fields (ids, tokens).
None == -1

\* A key that is missing from a mapping (dict.get without the key).
Absent == -2

\* Bounds of the model: the longest `orders` list the API answers with, the
\* last tick of the clock, and the longest token lifetime.
MaxOrders == 2
MaxTime == 2
MaxExpiresIn == 2

\* Python truthiness of an id / token value: None, a missing key and 0 are
\* falsy (`if order_id:`, `if item_id:`, `if not TapAnts2._token:`).
Truthy(x) == x # None /\ x # Absent /\ x # 0

\* The values an "id" field of a JSON record carries here: null (or no id),
\* the falsy integer 0, and two distinct truthy ids.  The code only tests an
\* id for truthiness and copies it into a URL.
IdVals == {None, 0, 1, 2}

SeqsUpTo(S, n) == UNION {[1..k -> S] : k \in 0..n}

\* HTTP status codes the remote API answers with.
Statuses == {200, 404}

\* A raise_for_status that lets client errors through (checked against C6).
RaisesOnServerErrorOnly(s) == s >= 500 /\ s < 600

\* requests.Response.raise_for_status(): raises HTTPError for 4xx / 5xx.
RaisesForStatus(s) == s >= 400 /\ s < 600

\* A JSON entity as the code sees it: kind "rec" is a mapping with an id and
\* the ids listed in relationships.orderItems.data; "empty" is {}; "none" is
\* None.
Rec(kind, id, refs) == [kind |-> kind, id |-> id, refs |-> refs]
EmptyRec == Rec("empty", None, <<>>)
NoneRec == Rec("none", None, <<>>)

\* A Python value that is a list or None.
PyList(s) == [none |-> FALSE, elems |-> s]
PyNone == [none |-> TRUE, elems |-> <<>>]

\* Bodies of a 2xx answer of a list endpoint: no "data" field, "data": null,
\* or "data": [ {id: ...}, ... ].
ListBodies(n) ==
    {[data |-> "absent", elems |-> <<>>], [data |-> "null", elems |-> <<>>]}
    \cup {[data |-> "list", elems |-> s] : s \in SeqsUpTo(IdVals, n)}

\* The relationships.orderItems.data arrays an order detail carries: every
\* array of at most two item references.
RefLists == SeqsUpTo(IdVals, 2)

\* Bodies of a 2xx answer of a single-entity endpoint: no "data" field,
\* "data": null, or "data": {...} with one of the given reference arrays.
EntityBodies(refLists) ==
    {[data |-> "absent", refs |-> <<>>], [data |-> "null", refs |-> <<>>]}
    \cup {[data |-> "object", refs |-> s] : s \in refLists}

\* The bodies a GET of /v3/products or /v3/orders is answered with.  No code
\* reads a product, so one product at most is enough.
BodiesOf(endpoint) ==
    IF endpoint = "products" THEN ListBodies(1) ELSE ListBodies(MaxOrders)

\* response.json().get('data', []) of ActiveAntsStream.get_records.
UnwrapList(body) ==
    IF body.data = "absent" THEN PyList(<<>>)
    ELSE IF body.data = "null" THEN PyNone
    ELSE PyList(body.elems)

\* response.json().get('data', {}) of the single-entity fetches.
UnwrapEntity(body, id) ==
    IF body.data = "absent" THEN EmptyRec
    ELSE IF body.data = "null" THEN NoneRec
    ELSE Rec("rec", id, body.refs)

\* The records of a list answer, one per element.
AsRecs(s) == [k \in 1..Len(s) |-> Rec("rec", s[k], <<>>)]

\* -------------------------------------------------------------- state ---

VARIABLES
    driver,        \* entry point running: "idle", "stream", "sync", "csv", "done"
    target,        \* stream whose get_records the stream driver called
    phase,         \* code position: which fetch is in progress
    step,          \* "headers" (http_headers next) or "send" (requests.get next)
    bearer,        \* token of the Authorization header being built
    _token,        \* TapAnts2._token (class variable)
    expires_at,    \* token value t (1, 2, ...) -> time at which the API
                   \* expires it; the API issues Len(expires_at) + 1 next
    now,           \* wall clock
    config,        \* config file / tap config: token, token_expires_at
    orders,        \* `orders` local: ids of the fetched orders, in order
    order_details_records, \* details fetched by OrderDetailsStream
    records,       \* `records` local of OrderItemsStream
    order_details, \* `order_details` local of the two CSV exports
    i, j,          \* loop positions (outer, inner)
    result,        \* what the top-level get_records call returned / raised
    error,         \* exception that left the entry point ("" if none)
    reqs,          \* every HTTP request sent, in order
    files,         \* CSV files written: resource name -> rows
    printed,       \* error messages printed, in order
    record,        \* a nested record handed to flatten_dict
    flat,          \* what flatten_dict(record) returned
    self           \* the TapAnts2 instance in use: 1, 2, ... in the order
                   \* the process constructed them; instance n is configured
                   \* with the credentials of user n

tapVars == <<driver, target, phase, step, bearer, _token, expires_at,
             now, config, orders, order_details_records, records,
             order_details, i, j, result, error, reqs, files, printed>>

flatVars == <<record, flat>>

instVars == <<self>>

vars == <<tapVars, flatVars, instVars>>

Pending == [status |-> "pending", none |-> FALSE, recs |-> <<>>]
Returned(v) == [status |-> "returned", none |-> v.none, recs |-> v.elems]
Raised == [status |-> "raised", none |-> FALSE, recs |-> <<>>]

\* Whether the API has expired token tok by now (None is no token).
Expired(tok) ==
    /\ tok \in 1..Len(expires_at)
    /\ expires_at[tok] <= now

\* A GET as it is sent and answered: the endpoint, the id in its URL, the
\* token of its Authorization header, whether that token had expired when
\* the request was sent, the status of the answer and what its body holds
\* under "data" ("-" when the status is an error); `by` is the instance
\* whose stream sent it.
Req(kind, id, tok, st, body) ==
    [kind |-> kind, id |-> id, by |-> self, bearer |-> tok,
     expired |-> Expired(tok),
     status |-> st, data |-> IF RaisesForStatus(st) THEN "-" ELSE body.data,
     issued |-> None]

\* A POST {api_url}/token as it is sent and answered: the status and the
\* access_token of the answer (None when the answer carries none); `by` is
\* the instance whose username and password the form body carries.
TokenReq(st, tok) ==
    [kind |-> "token", id |-> None, by |-> self, bearer |-> None,
     expired |-> FALSE,
     status |-> st, data |-> "-",
     issued |-> IF RaisesForStatus(st) THEN None ELSE tok]

StreamNames == {"products", "orders", "order_details", "order_items"}

\* ------------------------------------------------------- loop helpers ---

\* The loop without its `if order_id:` test (checked against C4).
NextUnfiltered(s, k) == k

\* `for order in orders: if order_id:` -- the next position at or after k
\* whose id is truthy, or Len(s) + 1 when the loop is over.
RECURSIVE NextTruthy(_, _)
NextTruthy(s, k) ==
    IF k > Len(s) THEN k
    ELSE IF Truthy(s[k]) THEN k
    ELSE NextTruthy(s, k + 1)

\* The nested loops without the `if item_id:` test (checked against C5).
RECURSIVE NextItemUnfiltered(_, _, _)
NextItemUnfiltered(ds, a, b) ==
    IF a > Len(ds) THEN [k |-> "end", i |-> a, j |-> 1]
    ELSE IF ds[a].kind = "none" THEN [k |-> "raise", i |-> a, j |-> 1]
    ELSE IF b > Len(ds[a].refs) THEN NextItemUnfiltered(ds, a + 1, 1)
    ELSE [k |-> "at", i |-> a, j |-> b]

\* The nested loops of OrderItemsStream.get_records: the next (detail, ref)
\* position at or after (a, b) whose ref id is truthy; "end" when both loops
\* are over; "raise" when the outer loop reaches a detail that is None
\* (None.get raises AttributeError).
RECURSIVE NextItem(_, _, _)
NextItem(ds, a, b) ==
    IF a > Len(ds) THEN [k |-> "end", i |-> a, j |-> 1]
    ELSE IF ds[a].kind = "none" THEN [k |-> "raise", i |-> a, j |-> 1]
    ELSE IF b > Len(ds[a].refs) THEN NextItem(ds, a + 1, 1)
    ELSE IF Truthy(ds[a].refs[b]) THEN [k |-> "at", i |-> a, j |-> b]
    ELSE NextItem(ds, a, b + 1)

\* ------------------------------------------------------- control flow ---

\* The part of the state that says where the program is.
Cur == [driver |-> driver, phase |-> phase, step |-> step, i |-> i, j |-> j,
        result |-> result, error |-> error, printed |-> printed]

SetCtl(c) ==
    /\ driver' = c.driver
    /\ phase' = c.phase
    /\ step' = c.step
    /\ i' = c.i
    /\ j' = c.j
    /\ result' = c.result
    /\ error' = c.error
    /\ printed' = c.printed

\* _sync_order_details_to_csv begins: token = self.config["token"] raises
\* KeyError when the config holds no token; otherwise the orders are fetched
\* through the orders stream.
SyncOrderDetailsBegin(c) ==
    IF config.token = Absent
    THEN [c EXCEPT !.driver = "done", !.error = "KeyError"]
    ELSE [c EXCEPT !.phase = "od_orders", !.step = "headers"]

\* sync_all_to_csv: what follows the _sync_stream_to_csv call of `ph`.
SyncNext(c, ph) ==
    IF ph = "products" THEN [c EXCEPT !.phase = "orders", !.step = "headers"]
    ELSE SyncOrderDetailsBegin(c)

\* An exception raised at the current position.  get_records, the script and
\* _sync_order_details_to_csv have no handler: the exception leaves the entry
\* point.  _sync_stream_to_csv catches every Exception, prints it and returns.
Propagate(exc) ==
    IF driver = "stream"
    THEN [Cur EXCEPT !.driver = "done", !.result = Raised, !.error = exc]
    ELSE IF driver = "sync" /\ phase \in {"products", "orders"}
    THEN SyncNext([Cur EXCEPT !.printed =
                       Append(printed, "An error occurred during syncing")],
                  phase)
    ELSE [Cur EXCEPT !.driver = "done", !.error = exc]

\* OrderItemsStream.get_records after order_details_records is materialized:
\* run the loops up to the next GET, the return, or the AttributeError.
ItemsFrom(ds, recs, a, b) ==
    LET p == NextItem(ds, a, b) IN
    IF p.k = "end"
    THEN [Cur EXCEPT !.driver = "done", !.result = Returned(PyList(recs))]
    ELSE IF p.k = "raise" THEN Propagate("AttributeError")
    ELSE [Cur EXCEPT !.phase = "items", !.step = "headers",
                     !.i = p.i, !.j = p.j]

\* OrderDetailsStream.get_records returns ds (streams.py line 117).
AfterDetails(ds) ==
    IF target = "order_details"
    THEN [Cur EXCEPT !.driver = "done", !.result = Returned(PyList(ds))]
    ELSE ItemsFrom(ds, <<>>, 1, 1)

\* OrderDetailsStream.get_records from position k of its loop over `os`.
DetailsFrom(os, ds, k) ==
    LET n == NextTruthy(os, k) IN
    IF n > Len(os) THEN AfterDetails(ds)
    ELSE [Cur EXCEPT !.phase = "details", !.step = "headers", !.i = n]

\* --------------------------------------------------------- the token ---

NextTok == Len(expires_at) + 1

\* TapAnts2.get_token when TapAnts2._token is truthy: the cached value.
GetTokenCached ==
    /\ driver \in {"stream", "sync", "csv"}
    /\ step = "headers"
    /\ Truthy(_token)
    /\ bearer' = _token
    /\ step' = "send"
    /\ UNCHANGED flatVars
    /\ UNCHANGED instVars
    /\ UNCHANGED <<driver, target, phase, _token, expires_at, now, config,
                   orders, order_details_records, records, order_details,
                   i, j, result, error, reqs, files, printed>>

\* TapAnts2.get_token when TapAnts2._token is falsy: POST {api_url}/token,
\* raise_for_status, cache response.json().get("access_token").  The API
\* expires the token it issues after one of the lifetimes `ttls`.
GetTokenExchange(ttls) ==
    /\ driver \in {"stream", "sync", "csv"}
    /\ step = "headers"
    /\ ~Truthy(_token)
    /\ \E st \in Statuses, tok \in {None, NextTok}, ttl \in ttls :
        /\ reqs' = Append(reqs, TokenReq(st, tok))
        /\ IF RaisesForStatus(st)
           THEN /\ SetCtl(Propagate("HTTPError"))
                /\ UNCHANGED <<_token, bearer, expires_at>>
           ELSE /\ _token' = tok
                /\ bearer' = tok
                /\ expires_at' = IF tok = None THEN expires_at
                                 ELSE Append(expires_at, now + ttl)
                /\ SetCtl([Cur EXCEPT !.step = "send"])
    /\ UNCHANGED flatVars
    /\ UNCHANGED instVars
    /\ UNCHANGED <<target, now, config, orders, order_details_records,
                   records, order_details, files>>

\* ----------------------------------------------------- stream driver ---

\* A caller (the SDK's sync, a test) calls get_records on one stream.
StartStream(s) ==
    /\ driver = "idle"
    /\ driver' = "stream"
    /\ target' = s
    /\ phase' = IF s = "products" THEN "products" ELSE "orders"
    /\ step' = "headers"
    /\ UNCHANGED flatVars
    /\ UNCHANGED instVars
    /\ UNCHANGED <<bearer, _token, expires_at, now, config, orders,
                   order_details_records, records, order_details, i, j,
                   result, error, reqs, files, printed>>

\* ActiveAntsStream.get_records after http_headers: the GET of a collection.
\* For order_details / order_items this is the `orders` fetch they start with.
StreamGetRecords ==
    /\ driver = "stream"
    /\ phase \in {"products", "orders"}
    /\ step = "send"
    /\ \E st \in Statuses, body \in BodiesOf(phase) :
        LET data == UnwrapList(body) IN
        /\ reqs' = Append(reqs, Req(phase, None, bearer, st, body))
        /\ IF RaisesForStatus(st)
           THEN SetCtl(Propagate("HTTPError")) /\ UNCHANGED orders
           ELSE IF target = phase
           THEN /\ SetCtl([Cur EXCEPT !.driver = "done", !.result =
                     Returned(IF data.none THEN PyNone
                              ELSE PyList(AsRecs(data.elems)))])
                /\ UNCHANGED orders
           ELSE IF data.none
           THEN SetCtl(Propagate("TypeError")) /\ UNCHANGED orders
           ELSE /\ orders' = data.elems
                /\ SetCtl(DetailsFrom(data.elems, <<>>, 1))
    /\ UNCHANGED flatVars
    /\ UNCHANGED instVars
    /\ UNCHANGED <<target, bearer, _token, expires_at, now, config,
                   order_details_records, records, order_details, files>>

\* OrderDetailsStream.get_records: one GET {base}/v3/orders/{order_id}.
StreamGetOrderDetail ==
    /\ driver = "stream"
    /\ phase = "details"
    /\ step = "send"
    /\ \E st \in Statuses,
          body \in EntityBodies(IF target = "order_items" THEN RefLists
                                 ELSE {<<>>}) :
        LET ds == Append(order_details_records, UnwrapEntity(body, orders[i])) IN
        /\ reqs' = Append(reqs, Req("order", orders[i], bearer, st, body))
        /\ IF RaisesForStatus(st)
           THEN /\ SetCtl(Propagate("HTTPError"))
                /\ UNCHANGED order_details_records
           ELSE /\ order_details_records' = ds
                /\ SetCtl(DetailsFrom(orders, ds, i + 1))
    /\ UNCHANGED flatVars
    /\ UNCHANGED instVars
    /\ UNCHANGED <<target, bearer, _token, expires_at, now, config, orders,
                   records, order_details, files>>

\* OrderItemsStream.get_records: one GET {base}/v3/orderitems/{item_id}.
\* The code appends whatever `data` holds without reading it, so a 2xx answer
\* carries the item itself here.
StreamGetOrderItem ==
    /\ driver = "stream"
    /\ phase = "items"
    /\ step = "send"
    /\ \E st \in Statuses, body \in {[data |-> "object", refs |-> <<>>]} :
        LET id == order_details_records[i].refs[j]
            rs == Append(records, UnwrapEntity(body, id)) IN
        /\ reqs' = Append(reqs, Req("orderitem", id, bearer, st, body))
        /\ IF RaisesForStatus(st)
           THEN SetCtl(Propagate("HTTPError")) /\ UNCHANGED records
           ELSE /\ records' = rs
                /\ SetCtl(ItemsFrom(order_details_records, rs, i, j + 1))
    /\ UNCHANGED flatVars
    /\ UNCHANGED instVars
    /\ UNCHANGED <<target, bearer, _token, expires_at, now, config, orders,
                   order_details_records, order_details, files>>

\* ------------------------------------------- create_csv.py (script) ---

NotWritten == [written |-> FALSE, rows |-> <<>>]
Written(rows) == [written |-> TRUE, rows |-> rows]

\* is_token_valid(expiration_time): datetime.fromisoformat(...) > now.
is_token_valid(expiration_time) == expiration_time > now

\* The test of the script's `if` (create_csv.py line 122).
StoredTokenUsable ==
    /\ config.token # Absent
    /\ config.token_expires_at # Absent
    /\ is_token_valid(config.token_expires_at)

StartCsv ==
    /\ driver = "idle"
    /\ driver' = "csv"
    /\ phase' = "startup"
    /\ UNCHANGED flatVars
    /\ UNCHANGED instVars
    /\ UNCHANGED <<target, step, bearer, _token, expires_at, now, config,
                   orders, order_details_records, records, order_details,
                   i, j, result, error, reqs, files, printed>>

\* __main__, the stored token is still valid: "Using existing valid token."
CsvUseStoredToken ==
    /\ driver = "csv"
    /\ phase = "startup"
    /\ StoredTokenUsable
    /\ phase' = "products"
    /\ step' = "headers"
    /\ UNCHANGED flatVars
    /\ UNCHANGED instVars
    /\ UNCHANGED <<driver, target, bearer, _token, expires_at, now, config,
                   orders, order_details_records, records, order_details,
                   i, j, result, error, reqs, files, printed>>

\* __main__, no usable stored token: the script's get_token (POST /token,
\* raise_for_status, access_token and expires_in read with .get), then
\* update_config_with_token, which computes now + timedelta(seconds=
\* expires_in) -- a TypeError when the answer carried no expires_in -- and
\* writes token and token_expires_at to the config.
CsvGetToken(ttls) ==
    /\ driver = "csv"
    /\ phase = "startup"
    /\ ~StoredTokenUsable
    /\ \E st \in Statuses, tok \in {None, NextTok}, ttl \in ttls,
          hasExpiresIn \in BOOLEAN :
        /\ reqs' = Append(reqs, TokenReq(st, tok))
        /\ IF RaisesForStatus(st)
           THEN /\ SetCtl(Propagate("HTTPError"))
                /\ UNCHANGED <<config, expires_at>>
           ELSE /\ expires_at' = IF tok = None THEN expires_at
                                 ELSE Append(expires_at, now + ttl)
                /\ IF hasExpiresIn
                   THEN /\ config' = [token |-> tok,
                                      token_expires_at |-> now + ttl]
                        /\ SetCtl([Cur EXCEPT !.phase = "products",
                                              !.step = "headers"])
                   ELSE /\ SetCtl(Propagate("TypeError"))
                        /\ UNCHANGED config
    /\ UNCHANGED flatVars
    /\ UNCHANGED instVars
    /\ UNCHANGED <<target, bearer, _token, now, orders,
                   order_details_records, records, order_details, files>>

\* fetch_and_save_csv after the orders file is written: the loop over the
\* orders from position k up to the next fetch_order_details call, or the
\* end, where order_details.csv is written when there are rows.
CsvDetailsFrom(os, k) ==
    LET n == NextTruthy(os, k) IN
    IF n > Len(os) THEN [Cur EXCEPT !.driver = "done"]
    ELSE [Cur EXCEPT !.phase = "csv_details", !.step = "send", !.i = n]

\* fetch_order_details without its `except HTTPError` (checked against C7).
CsvAfterFetchUncaught(st, os, k) ==
    IF RaisesForStatus(st) THEN Propagate("HTTPError")
    ELSE CsvDetailsFrom(os, k)

\* What follows a fetch_order_details call answered with status st: an
\* HTTPError is caught inside it and printed, and the loop goes on from k.
CsvAfterFetch(st, os, k) ==
    IF RaisesForStatus(st)
    THEN [CsvDetailsFrom(os, k) EXCEPT !.printed =
              Append(printed, "HTTP error occurred")]
    ELSE CsvDetailsFrom(os, k)

CsvFilesAtEnd(fs, os, rows, k) ==
    IF NextTruthy(os, k) > Len(os) /\ rows # <<>>
    THEN [fs EXCEPT !["order_details"] = Written(rows)]
    ELSE fs

\* fetch_and_save_csv up to and including the stream's GET: records =
\* list(stream.get_records(context=None)), the early return on no records,
\* the CSV of the flattened records and, for orders, the start of the
\* order-details loop.
CsvGetRecords ==
    /\ driver = "csv"
    /\ phase \in {"products", "orders"}
    /\ step = "send"
    /\ \E st \in Statuses, body \in BodiesOf(phase) :
        LET data == UnwrapList(body)
            fs == [files EXCEPT ![phase] = Written(AsRecs(data.elems))] IN
        /\ reqs' = Append(reqs, Req(phase, None, bearer, st, body))
        /\ IF RaisesForStatus(st)
           THEN SetCtl(Propagate("HTTPError")) /\ UNCHANGED <<orders, files>>
           ELSE IF data.none
           THEN SetCtl(Propagate("TypeError")) /\ UNCHANGED <<orders, files>>
           ELSE IF phase = "products"
           THEN /\ files' = IF data.elems = <<>> THEN files ELSE fs
                /\ SetCtl([Cur EXCEPT !.phase = "orders", !.step = "headers"])
                /\ UNCHANGED orders
           ELSE IF data.elems = <<>>
           THEN /\ SetCtl([Cur EXCEPT !.driver = "done"])
                /\ UNCHANGED <<orders, files>>
           ELSE /\ orders' = data.elems
                /\ files' = CsvFilesAtEnd(fs, data.elems, <<>>, 1)
                /\ SetCtl(CsvDetailsFrom(data.elems, 1))
    /\ UNCHANGED flatVars
    /\ UNCHANGED instVars
    /\ UNCHANGED <<target, bearer, _token, expires_at, now, config,
                   order_details_records, records, order_details>>

\* One fetch_order_details(order_id, token, api_url) call of the loop of
\* fetch_and_save_csv: the GET carries config["token"]; an HTTPError is
\* caught, printed and answered with {}; falsy details are not appended.
CsvFetchOrderDetails ==
    /\ driver = "csv"
    /\ phase = "csv_details"
    /\ \E st \in Statuses, body \in EntityBodies({<<>>}) :
        LET details == IF RaisesForStatus(st) THEN EmptyRec
                       ELSE UnwrapEntity(body, orders[i])
            rows == IF details.kind = "rec"
                    THEN Append(order_details, details)
                    ELSE order_details IN
        /\ reqs' = Append(reqs, Req("order", orders[i], config.token, st, body))
        /\ order_details' = rows
        /\ files' = CsvFilesAtEnd(files, orders, rows, i + 1)
        /\ SetCtl(CsvAfterFetch(st, orders, i + 1))
    /\ UNCHANGED flatVars
    /\ UNCHANGED instVars
    /\ UNCHANGED <<target, bearer, _token, expires_at, now, config, orders,
                   order_details_records, records>>

\* ------------------------------------------ tap.py: sync_all_to_csv ---

StartSync ==
    /\ driver = "idle"
    /\ driver' = "sync"
    /\ phase' = "products"
    /\ step' = "headers"
    /\ UNCHANGED flatVars
    /\ UNCHANGED instVars
    /\ UNCHANGED <<target, bearer, _token, expires_at, now, config, orders,
                   order_details_records, records, order_details, i, j,
                   result, error, reqs, files, printed>>

\* _sync_stream_to_csv(stream_name, ...) from the stream's GET on: inside the
\* try, records = list(stream.get_records(context=None)), the early return on
\* no records, the CSV of the transformed records.
SyncGetRecords ==
    /\ driver = "sync"
    /\ phase \in {"products", "orders"}
    /\ step = "send"
    /\ \E st \in Statuses, body \in BodiesOf(phase) :
        LET data == UnwrapList(body) IN
        /\ reqs' = Append(reqs, Req(phase, None, bearer, st, body))
        /\ IF RaisesForStatus(st)
           THEN SetCtl(Propagate("HTTPError")) /\ UNCHANGED files
           ELSE IF data.none
           THEN SetCtl(Propagate("TypeError")) /\ UNCHANGED files
           ELSE /\ files' = IF data.elems = <<>> THEN files
                            ELSE [files EXCEPT ![phase] =
                                      Written(AsRecs(data.elems))]
                /\ SetCtl(SyncNext(Cur, phase))
    /\ UNCHANGED flatVars
    /\ UNCHANGED instVars
    /\ UNCHANGED <<target, bearer, _token, expires_at, now, config, orders,
                   order_details_records, records, order_details>>

\* _sync_order_details_to_csv from position k of its loop: up to the next
\* _fetch_order_details call, or the end, where the file is always written.
SyncDetailsFrom(os, k) ==
    LET n == NextTruthy(os, k) IN
    IF n > Len(os) THEN [Cur EXCEPT !.driver = "done"]
    ELSE [Cur EXCEPT !.phase = "od_details", !.step = "send", !.i = n]

SyncFilesAtEnd(os, rows, k) ==
    IF NextTruthy(os, k) > Len(os)
    THEN [files EXCEPT !["order_details"] = Written(rows)]
    ELSE files

\* _sync_order_details_to_csv: orders = list(orders_stream.get_records(...)).
SyncGetOrders ==
    /\ driver = "sync"
    /\ phase = "od_orders"
    /\ step = "send"
    /\ \E st \in Statuses, body \in ListBodies(MaxOrders) :
        LET data == UnwrapList(body) IN
        /\ reqs' = Append(reqs, Req("orders", None, bearer, st, body))
        /\ IF RaisesForStatus(st)
           THEN SetCtl(Propagate("HTTPError")) /\ UNCHANGED <<orders, files>>
           ELSE IF data.none
           THEN SetCtl(Propagate("TypeError")) /\ UNCHANGED <<orders, files>>
           ELSE /\ orders' = data.elems
                /\ files' = SyncFilesAtEnd(data.elems, <<>>, 1)
                /\ SetCtl(SyncDetailsFrom(data.elems, 1))
    /\ UNCHANGED flatVars
    /\ UNCHANGED instVars
    /\ UNCHANGED <<target, bearer, _token, expires_at, now, config,
                   order_details_records, records, order_details>>

\* One _fetch_order_details(order_id, token, api_url) call of the loop of
\* _sync_order_details_to_csv: the GET carries config["token"]; a row is
\* appended for every answer; an HTTPError is not caught.
SyncFetchOrderDetails ==
    /\ driver = "sync"
    /\ phase = "od_details"
    /\ \E st \in Statuses, body \in EntityBodies({<<>>}) :
        LET rows == Append(order_details, UnwrapEntity(body, orders[i])) IN
        /\ reqs' = Append(reqs, Req("order", orders[i], config.token, st, body))
        /\ IF RaisesForStatus(st)
           THEN /\ SetCtl(Propagate("HTTPError"))
                /\ UNCHANGED <<order_details, files>>
           ELSE /\ order_details' = rows
                /\ files' = SyncFilesAtEnd(orders, rows, i + 1)
                /\ SetCtl(SyncDetailsFrom(orders, i + 1))
    /\ UNCHANGED flatVars
    /\ UNCHANGED instVars
    /\ UNCHANGED <<target, bearer, _token, expires_at, now, config, orders,
                   order_details_records, records>>

\* ------------------------------------------------- another instance ---

MaxInstances == 2

\* A token kept per instance: a new instance would start without one.
TokenPerInstance == None

\* The token a newly constructed TapAnts2 finds: _token is a class variable
\* (tap.py line 14) and get_token reads and writes TapAnts2._token, so
\* constructing an instance leaves it as the earlier instances left it.
TokenOfNewInstance == _token

\* After a get_records call has ended, the process constructs another
\* TapAnts2, configured with other credentials, and goes on with that one:
\* the locals of the ended call are gone, the class and the API stay.
NewInstance ==
    /\ driver = "done"
    /\ self < MaxInstances
    /\ self' = self + 1
    /\ _token' = TokenOfNewInstance
    /\ driver' = "idle"
    /\ target' = ""
    /\ phase' = ""
    /\ step' = ""
    /\ bearer' = None
    /\ orders' = <<>>
    /\ order_details_records' = <<>>
    /\ records' = <<>>
    /\ order_details' = <<>>
    /\ i' = 1
    /\ j' = 1
    /\ result' = Pending
    /\ error' = ""
    /\ UNCHANGED flatVars
    /\ UNCHANGED <<expires_at, now, config, reqs, files, printed>>

\* -------------------------------------------------------- the clock ---

\* Time passes while an entry point runs.
Tick ==
    /\ driver \in {"stream", "sync", "csv"}
    /\ now < MaxTime
    /\ now' = now + 1
    /\ UNCHANGED flatVars
    /\ UNCHANGED instVars
    /\ UNCHANGED <<driver, target, phase, step, bearer, _token, expires_at,
                   config, orders, order_details_records, records,
                   order_details, i, j, result, error, reqs, files, printed>>

\* ------------------------------------------------------ flatten_dict ---

\* A JSON value: a scalar, an array (both leaves of the flattening; v tells
\* one leaf from another) or a mapping, whose kv lists its (key, value)
\* items in the dict's order.
Scalar(n) == [t |-> "scalar", v |-> n, kv |-> <<>>]
Array(n) == [t |-> "array", v |-> n, kv |-> <<>>]
Mapping(kv) == [t |-> "map", v |-> 0, kv |-> kv]
Item(k, val) == [k |-> k, val |-> val]

\* dict.__setitem__: a key that is there keeps its place and takes the new
\* value; a new key goes last.
DictPut(d, k, val) ==
    IF \E n \in 1..Len(d) : d[n].k = k
    THEN [n \in 1..Len(d) |-> IF d[n].k = k THEN Item(k, val) ELSE d[n]]
    ELSE Append(d, Item(k, val))

\* dict(items): the items put one after the other.
RECURSIVE DictOf(_, _)
DictOf(items, d) ==
    IF items = <<>> THEN d
    ELSE DictOf(Tail(items), DictPut(d, items[1].k, items[1].val))

\* The separator argument's default.
sep == "."

\* A new_key that forgets the parent's key (checked against C9).
NewKeyOfChildOnly(parent_key, k) == k

\* new_key = f"{parent_key}{sep}{k}" if parent_key else k
NewKey(parent_key, k) ==
    IF parent_key # "" THEN parent_key \o sep \o k ELSE k

\* flatten_dict(d, parent_key): FlattenItems is the loop that fills `items`
\* from the dict's items kv (a nested mapping contributes the items of its
\* own flattening), flatten_dict returns dict(items).
RECURSIVE flatten_dict(_, _), FlattenItems(_, _)
flatten_dict(d, parent_key) == DictOf(FlattenItems(d.kv, parent_key), <<>>)
FlattenItems(kv, parent_key) ==
    IF kv = <<>> THEN <<>>
    ELSE LET new_key == NewKey(parent_key, kv[1].k) IN
         (IF kv[1].val.t = "map"
          THEN flatten_dict(kv[1].val, new_key)
          ELSE <<Item(new_key, kv[1].val)>>)
         \o FlattenItems(Tail(kv), parent_key)

\* The records handed to flatten_dict are built one item at a time.
MaxItems == 3
Keys == {"", "a", "b", "a.b"}
Leaves == {Scalar(1), Array(2)}

\* The number of items of a value, nested ones included.
RECURSIVE Size(_), SizeOfItems(_)
Size(val) == IF val.t = "map" THEN SizeOfItems(val.kv) ELSE 0
SizeOfItems(kv) ==
    IF kv = <<>> THEN 0 ELSE 1 + Size(kv[1].val) + SizeOfItems(Tail(kv))

\* The mappings inside val, each named by the positions that lead to it.
RECURSIVE MappingsIn(_)
MappingsIn(val) ==
    IF val.t # "map" THEN {}
    ELSE {<<>>} \cup UNION {{<<n>> \o p : p \in MappingsIn(val.kv[n].val)}
                            : n \in 1..Len(val.kv)}

RECURSIVE MappingAt(_, _)
MappingAt(val, p) ==
    IF p = <<>> THEN val ELSE MappingAt(val.kv[p[1]].val, Tail(p))

\* val with the item put last into the mapping at p.
RECURSIVE WithItem(_, _, _)
WithItem(val, p, item) ==
    IF p = <<>> THEN Mapping(Append(val.kv, item))
    ELSE Mapping([val.kv EXCEPT ![p[1]] =
                      Item(@.k, WithItem(@.val, Tail(p), item))])

\* The example of the flattening: {"a": {"b": 1, "c": {"d": 2}}}.
ExampleRecord ==
    Mapping(<<Item("a", Mapping(<<Item("b", Scalar(1)),
                                  Item("c", Mapping(<<Item("d", Scalar(2))>>))
                                >>))>>)

\* A record gains an item (a leaf or an empty mapping) under a key its
\* mapping does not have yet, and is flattened.
PutItem ==
    /\ Size(record) < MaxItems
    /\ \E p \in MappingsIn(record), k \in Keys,
          val \in Leaves \cup {Mapping(<<>>)} :
        /\ \A n \in 1..Len(MappingAt(record, p).kv) :
               MappingAt(record, p).kv[n].k # k
        /\ record' = WithItem(record, p, Item(k, val))
        /\ flat' = flatten_dict(record', "")
    /\ UNCHANGED tapVars
    /\ UNCHANGED instVars

\* flatten_dict is first called on {} and on the example.
FlattenFirst ==
    /\ record \in {Mapping(<<>>), ExampleRecord}
    /\ flat = flatten_dict(record, "")

\* ------------------------------------------------------ specification ---

NoConfig == [token |-> Absent, token_expires_at |-> Absent]

InitCommon ==
    /\ driver = "idle"
    /\ target = ""
    /\ phase = ""
    /\ step = ""
    /\ bearer = None
    /\ _token = None
    /\ now = 1
    /\ orders = <<>>
    /\ order_details_records = <<>>
    /\ records = <<>>
    /\ order_details = <<>>
    /\ i = 1
    /\ j = 1
    /\ result = Pending
    /\ error = ""
    /\ reqs = <<>>
    /\ files = [f \in {"products", "orders", "order_details"} |-> NotWritten]
    /\ printed = <<>>
    /\ self = 1

\* The runs of the tap and of the script flatten nothing that is looked at
\* here; the flattening is examined on its own under SpecFlatten.
NoFlatten ==
    /\ record = Mapping(<<>>)
    /\ flat = <<>>

InitStream ==
    /\ InitCommon
    /\ NoFlatten
    /\ config = NoConfig
    /\ expires_at = <<>>

NextStream ==
    \/ \E s \in StreamNames : StartStream(s)
    \/ GetTokenCached
    \/ GetTokenExchange({MaxExpiresIn})
    \/ StreamGetRecords
    \/ StreamGetOrderDetail
    \/ StreamGetOrderItem

SpecStream == InitStream /\ [][NextStream]_vars

\* The config the script and the tap start from: no stored token, or token 1
\* stored by an earlier run of the script with its expiry (already past,
\* one tick ahead, or beyond the run).
InitStored ==
    /\ InitCommon
    /\ NoFlatten
    /\ \/ config = NoConfig /\ expires_at = <<>>
       \/ \E e \in {1, 2, MaxTime + 1} :
            /\ config = [token |-> 1, token_expires_at |-> e]
            /\ expires_at = <<e>>

NextCsv ==
    \/ StartCsv
    \/ CsvUseStoredToken
    \/ CsvGetToken({MaxExpiresIn})
    \/ GetTokenCached
    \/ GetTokenExchange({MaxExpiresIn})
    \/ CsvGetRecords
    \/ CsvFetchOrderDetails

SpecCsv == InitStored /\ [][NextCsv]_vars

Next ==
    \/ \E s \in StreamNames : StartStream(s)
    \/ StartCsv
    \/ StartSync
    \/ GetTokenCached
    \/ GetTokenExchange(1..MaxExpiresIn)
    \/ StreamGetRecords
    \/ StreamGetOrderDetail
    \/ StreamGetOrderItem
    \/ CsvUseStoredToken
    \/ CsvGetToken(1..MaxExpiresIn)
    \/ CsvGetRecords
    \/ CsvFetchOrderDetails
    \/ SyncGetRecords
    \/ SyncGetOrders
    \/ SyncFetchOrderDetails
    \/ Tick

Spec == InitStored /\ [][Next]_vars

\* get_records of the products and orders streams of one TapAnts2 instance
\* after another in the same process.
NextShared ==
    \/ \E s \in {"products", "orders"} : StartStream(s)
    \/ GetTokenCached
    \/ GetTokenExchange({MaxExpiresIn})
    \/ StreamGetRecords
    \/ NewInstance

SpecShared == InitStream /\ [][NextShared]_vars

\* A run of tap.py's sync_all_to_csv on its own.
NextSync ==
    \/ StartSync
    \/ GetTokenCached
    \/ GetTokenExchange({MaxExpiresIn})
    \/ SyncGetRecords
    \/ SyncGetOrders
    \/ SyncFetchOrderDetails

SpecSync == InitStored /\ [][NextSync]_vars

InitFlatten ==
    /\ InitCommon
    /\ config = NoConfig
    /\ expires_at = <<>>
    /\ FlattenFirst

NextFlatten == PutItem

SpecFlatten == InitFlatten /\ [][NextFlatten]_vars

\* ============================================================ claims ===

Last(s) == s[Len(s)]
Ids(s) == [k \in 1..Len(s) |-> s[k].id]
IsPrefix(s, t) == Len(s) <= Len(t) /\ \A k \in 1..Len(s) : s[k] = t[k]
Positions(kind) == {k \in DOMAIN reqs : reqs[k].kind = kind}
GetsOf(kind) == SelectSeq(reqs, LAMBDA r : r.kind = kind)
NonTwoXX(st) == ~(st >= 200 /\ st < 300)

\* What a single-entity GET that was answered 2xx hands to the caller.
AnswerOf(r) ==
    IF r.data = "object" THEN "rec"
    ELSE IF r.data = "absent" THEN "empty" ELSE "none"

\* An id that is there (not null) / an id that is there and is not 0.
Present(id) == id # None
NonZero(id) == id # None /\ id # 0

\* ---- C3 -----------------------------------------------------------------
\* C3 (as claimed): whenever the credential exchange is answered with a
\* non-2xx status or with a body that has no access_token, get_token fails:
\* the get_records call that asked for the token raises, and no request
\* follows the exchange.
C3_Claim ==
    (/\ reqs # <<>>
     /\ Last(reqs).kind = "token"
     /\ (NonTwoXX(Last(reqs).status) \/ Last(reqs).issued = None))
    => result.status = "raised"

\* ---- C4 -----------------------------------------------------------------
\* The order_details fetch, with `Sel` saying which orders are fetched: the
\* orders collection is fetched once and before every dependent GET; the
\* dependent GETs are, in order, the selected orders (one GET each, none for
\* the others); when the fetch returns, every selected order has been
\* fetched and the output holds the answer of each GET, in that order.
OrderDetailsFetch(Sel(_)) ==
    LET gets == GetsOf("order")
        want == SelectSeq(orders, Sel) IN
    target = "order_details" =>
        /\ IsPrefix(Ids(gets), want)
        /\ gets # <<>> =>
             /\ Cardinality(Positions("orders")) = 1
             /\ \A a \in Positions("orders"), b \in Positions("order") : a < b
        /\ result.status = "returned" =>
             /\ Ids(gets) = want
             /\ Len(result.recs) = Len(gets)
             /\ \A k \in 1..Len(gets) :
                  /\ result.recs[k].kind = AnswerOf(gets[k])
                  /\ result.recs[k].kind = "rec" =>
                       result.recs[k].id = gets[k].id

\* C4 (as claimed): the orders fetched are those whose id is present.
C4_Claim == OrderDetailsFetch(Present)

\* C4 (amended): the orders fetched are those whose id is present and not 0
\* (the code tests `if order_id:`); the rest of the claim is unchanged.
C4_OrderDetails == OrderDetailsFetch(NonZero)

\* An order_details fetch of two orders that skipped the one with a falsy id
\* and returned the record of the other.
C4_Witness ==
    /\ target = "order_details"
    /\ result.status = "returned"
    /\ Len(result.recs) = 1
    /\ Len(orders) = 2
    /\ \E k \in 1..2 : ~Truthy(orders[k])

C8_Claim ==
    (/\ target \in {"products", "orders"}
     /\ result.status = "returned"
     /\ Last(reqs).data \in {"null", "absent"})
    => (~result.none /\ result.recs = <<>>)

\* ---- C5 -----------------------------------------------------------------
\* The item references of the details ds, detail after detail, each
\* detail's references in array order.
RECURSIVE FlatRefs(_)
FlatRefs(ds) ==
    IF ds = <<>> THEN <<>>
    ELSE (IF ds[1].kind = "rec" THEN ds[1].refs ELSE <<>>) \o FlatRefs(Tail(ds))

\* The order_items fetch, with `Sel` saying which references are fetched:
\* every order-detail GET was sent and answered before the first order-item
\* GET; the order-item GETs are, in order, the selected references of the
\* details (outer loop over the details as fetched, inner loop over each
\* detail's array; one GET each); when the fetch returns, every selected
\* reference has been fetched and the output holds the answers in that order.
OrderItemsFetch(Sel(_)) ==
    LET gets == GetsOf("orderitem")
        want == SelectSeq(FlatRefs(order_details_records), Sel) IN
    target = "order_items" =>
        /\ IsPrefix(Ids(gets), want)
        /\ gets # <<>> =>
             /\ \A a \in Positions("order"), b \in Positions("orderitem") : a < b
             /\ \A a \in Positions("order") : reqs[a].status = 200
             /\ Len(GetsOf("order")) = Len(order_details_records)
        /\ result.status = "returned" =>
             /\ Ids(gets) = want
             /\ result.recs = [k \in 1..Len(gets) |-> Rec("rec", gets[k].id, <<>>)]

\* C5 (as claimed): the references fetched are those whose id is present.
C5_Claim == OrderItemsFetch(Present)

\* C5 (amended): the references fetched are those whose id is present and
\* not 0 (the code tests `if item_id:`); the rest of the claim is unchanged.
C5_OrderItems == OrderItemsFetch(NonZero)

\* An order_items fetch over two details that returned three items: both
\* references <<2, 1>> of the first detail, then the one truthy reference of
\* the second, whose other reference was skipped.
C5_Witness ==
    /\ target = "order_items"
    /\ result.status = "returned"
    /\ Len(order_details_records) = 2
    /\ order_details_records[1].refs = <<2, 1>>
    /\ order_details_records[2].refs = <<None, 2>>
    /\ Ids(result.recs) = <<2, 1, 2>>

\* ---- C7 -----------------------------------------------------------------
\* The rows the script's order-details loop has gathered so far, read off
\* the requests: one row per GET answered 2xx with a record.
RowsFetched ==
    LET ok == SelectSeq(GetsOf("order"),
                        LAMBDA r : r.status = 200 /\ r.data = "object") IN
    [k \in 1..Len(ok) |-> Rec("rec", ok[k].id, <<>>)]

\* C7: in the script's order-details loop a GET answered with an HTTP error
\* does not abort the export: the error is printed (one line per failed
\* GET), no exception leaves the script, the loop goes on to the remaining
\* orders, and the rows kept -- and written to order_details.csv at the end
\* -- are exactly the records fetched successfully, in order, those fetched
\* before a failure included.
C7_Isolated ==
    LET gets == GetsOf("order")
        failed == {k \in Positions("order") : NonTwoXX(reqs[k].status)} IN
    phase = "csv_details" =>
        /\ error = ""
        /\ order_details = RowsFetched
        /\ Len(printed) = Cardinality(failed)
        /\ IsPrefix(Ids(gets), SelectSeq(orders, NonZero))
        /\ driver = "done" =>
             /\ Ids(gets) = SelectSeq(orders, NonZero)
             /\ files["order_details"] =
                  IF RowsFetched = <<>> THEN NotWritten ELSE Written(RowsFetched)

\* The script finished; the first order-details GET succeeded, the second
\* failed, and order_details.csv holds the first record.
C7_Witness ==
    /\ phase = "csv_details"
    /\ driver = "done"
    /\ Len(GetsOf("order")) = 2
    /\ GetsOf("order")[1].data = "object"
    /\ NonTwoXX(GetsOf("order")[2].status)
    /\ files["order_details"].written
    /\ Len(files["order_details"].rows) = 1
    /\ Len(printed) = 1

\* ---- C1, C2, C10 --------------------------------------------------------
\* Every credential exchange so far was answered 2xx with an access token
\* (the credentials are valid).
AllExchangesIssued ==
    \A k \in Positions("token") : reqs[k].status = 200 /\ reqs[k].issued # None

\* C1 (as claimed): with valid credentials, one run performs the credential
\* exchange at most once, and every GET built by http_headers carries the
\* same cached token.
C1_Claim ==
    AllExchangesIssued =>
        /\ Cardinality(Positions("token")) <= 1
        /\ \A a, b \in Positions("products") \cup Positions("orders") :
             reqs[a].bearer = reqs[b].bearer

C10_Claim ==
    (/\ AllExchangesIssued
     /\ reqs # <<>>
     /\ Last(reqs).kind # "token")
    => (Truthy(_token) /\ Last(reqs).bearer = _token)

\* ---- C9 -----------------------------------------------------------------
\* The leaves of a nested record, each with the keys that lead to it.
RECURSIVE LeafPathsOf(_, _)
LeafPathsOf(val, prefix) ==
    IF val.t # "map" THEN {[path |-> prefix, leaf |-> val]}
    ELSE UNION {LeafPathsOf(val.kv[n].val, Append(prefix, val.kv[n].k))
                : n \in 1..Len(val.kv)}

\* The keys of a path joined with '.'.
RECURSIVE Dotted(_)
Dotted(path) ==
    IF Len(path) = 1 THEN path[1]
    ELSE Dotted(SubSeq(path, 1, Len(path) - 1)) \o "." \o path[Len(path)]

\* Every key used in a record, at any depth.
RECURSIVE KeysIn(_)
KeysIn(val) ==
    IF val.t # "map" THEN {}
    ELSE {val.kv[n].k : n \in 1..Len(val.kv)}
         \cup UNION {KeysIn(val.kv[n].val) : n \in 1..Len(val.kv)}

\* flat is the flattening the claim describes of record: a single-level
\* mapping (no two items share a key, no value is a mapping) whose keys are
\* the '.'-joined key paths of the scalar and array leaves of record and
\* whose values are those leaves, as they are; {} gives {} and
\* {a: {b: 1, c: {d: 2}}} gives {a.b: 1, a.c.d: 2}.
FlattenedAsClaimed ==
    LET paths == LeafPathsOf(record, <<>>) IN
    /\ \A n \in DOMAIN flat : flat[n].val.t # "map"
    /\ \A m, n \in DOMAIN flat : flat[m].k = flat[n].k => m = n
    /\ {flat[n].k : n \in DOMAIN flat} = {Dotted(p.path) : p \in paths}
    /\ \A p \in paths :
         \E n \in DOMAIN flat : flat[n].k = Dotted(p.path) /\ flat[n].val = p.leaf
    /\ record = Mapping(<<>>) => flat = <<>>
    /\ record = ExampleRecord =>
         flat = <<Item("a.b", Scalar(1)), Item("a.c.d", Scalar(2))>>

\* C9 (as claimed): for every nested mapping record.
C9_Claim == FlattenedAsClaimed

\* C9 (amended): for every nested mapping record whose keys, at every depth,
\* are non-empty and contain no '.'.
C9_Flatten ==
    KeysIn(record) \subseteq {"a", "b", "c", "d"} => FlattenedAsClaimed

\* {a: {b: [..]}, b: 1} was flattened to {a.b: [..], b: 1}.
C9_Witness ==
    /\ record = Mapping(<<Item("a", Mapping(<<Item("b", Array(2))>>)),
                          Item("b", Scalar(1))>>)
    /\ flat = <<Item("a.b", Array(2)), Item("b", Scalar(1))>>

\* ---- C11 ----------------------------------------------------------------
\* C11 (as claimed): in sync_all_to_csv a failure while syncing one resource
\* (products, orders, order_details) is caught and logged and the run goes
\* on: sync_all_to_csv never aborts with an error, and a run that has ended
\* went past the products and orders syncs into the order_details sync.
C11_Claim ==
    /\ error = ""
    /\ driver = "done" => phase \in {"od_orders", "od_details"}

\* ---- C12 ----------------------------------------------------------------
\* C12: the cached token is shared by all TapAnts2 instances of the process.
\* Once a credential exchange of any instance was answered with a token,
\* every later get_token() of every instance returns that token (the value
\* in `bearer` when http_headers has been built, and on every GET sent
\* since) and no later exchange is made, with any instance's credentials.
C12_Shared ==
    \A a \in Positions("token") :
        Truthy(reqs[a].issued) =>
            /\ \A b \in DOMAIN reqs :
                 b > a => /\ reqs[b].kind # "token"
                          /\ reqs[b].bearer = reqs[a].issued
            /\ step = "send" => bearer = reqs[a].issued

\* Instance 1 exchanged its credentials for a token, and a GET of another
\* instance has carried that token.
C12_Witness ==
    \E a \in Positions("token"), b \in DOMAIN reqs :
        /\ a < b
        /\ Truthy(reqs[a].issued)
        /\ reqs[b].kind # "token"
        /\ reqs[b].by # reqs[a].by
        /\ reqs[b].bearer = reqs[a].issued
        /\ Cardinality(Positions("token")) = 1

====
